---- MODULE Spec2Model ----
(***************************************************************************)
(* Model of the scaffolder action github:actions:dispatch                  *)
(* (githubActionsDispatch.ts).  One invocation of the handler is a small   *)
(* process: it logs, parses repoUrl, checks the owner, awaits the client   *)
(* options, builds a throttled client and awaits createWorkflowDispatch.   *)
(* The throttling plugin calls the handler's onRateLimit /                 *)
(* onSecondaryRateLimit callbacks on every rate-limit response; when the   *)
(* callback returns true it increments request.retryCount and re-sends the *)
(* same request, otherwise the error rejects the awaited call.             *)
(*                                                                         *)
(* Optional values (undefined in the source) are sets with at most one     *)
(* element: {} is undefined, {v} is the value v.                           *)
(***************************************************************************)
EXTENDS Integers, Sequences, FiniteSets, TLC

\* Number of concurrent invocations in SpecConc.
NumInvocations == 2

\* Hosts for which an integration is configured.
IntegrationHosts == {"github.com"}

\* repoUrl values: host plus the query parameters that are present.
RepoUrls ==
  { [host |-> "github.com", query |-> [repo |-> "demo", owner |-> "acme"]],
    [host |-> "github.com", query |-> [repo |-> "app", owner |-> "octo"]],
    [host |-> "github.com", query |-> [repo |-> "demo", owner |-> ""]],
    [host |-> "github.com", query |-> [repo |-> "demo"]],
    [host |-> "example.org", query |-> [repo |-> "demo", owner |-> "acme"]] }

WorkflowIds == {"ci.yml", "release.yml"}
Refs == {"main", "v1"}
WorkflowInputsOpts == { {}, {[env |-> "prod"]} }
TokenOpts == { {}, {"ghp_user"} }

\* ctx.input, as the schema admits it
Inputs ==
  [repoUrl : RepoUrls, workflowId : WorkflowIds, branchOrTagName : Refs,
   workflowInputs : WorkflowInputsOpts, token : TokenOpts]

\* The inputs used when several invocations run concurrently.
ConcInputs ==
  { [repoUrl |-> [host |-> "github.com", query |-> [repo |-> "demo", owner |-> "acme"]],
     workflowId |-> "ci.yml", branchOrTagName |-> "main",
     workflowInputs |-> {}, token |-> {}],
    [repoUrl |-> [host |-> "github.com", query |-> [repo |-> "app", owner |-> "octo"]],
     workflowId |-> "release.yml", branchOrTagName |-> "v1",
     workflowInputs |-> {[env |-> "prod"]}, token |-> {"ghp_user"}],
    [repoUrl |-> [host |-> "github.com", query |-> [repo |-> "demo", owner |-> ""]],
     workflowId |-> "ci.yml", branchOrTagName |-> "main",
     workflowInputs |-> {}, token |-> {}] }

\* Responses of the provider to one dispatch attempt.
RateLimitSignals == {"rate_limit", "secondary_rate_limit"}
OtherErrors == {"not_found", "unauthorized", "forbidden"}

\* retry-after header of a rate-limit response: absent, or a number of seconds
RetryAfterHeaders == { {}, {1} }

VARIABLES
  input,          \* ctx.input of each invocation
  pc,             \* where each invocation's handler is
  parsed,         \* {} or {[owner, repo]}: result of parseRepoUrl
  client,         \* {} or {[auth]}: the invocation's own Octokit client
  request,        \* {} or {payload}: the parameters of the pending request
  retryCount,     \* opts.request.retryCount of the invocation's request
  trace,          \* what the invocation did, in order: log entries and dispatch attempts
  error,          \* "none" or the error the handler rejected with
  responsesSeen,  \* number of responses the invocation's attempts received
  rateLimitSeen,  \* how many of them were rate-limit signals
  lastResponse    \* the latest response, "none" before the first

vars == <<input, pc, parsed, client, request, retryCount, trace, error,
          responsesSeen, rateLimitSeen, lastResponse>>

Invs == DOMAIN pc

Final == {"done", "failed"}

----------------------------------------------------------------------------
\* Pure parts of the handler

\* parseRepoUrl(repoUrl, integrations): {} when the URL is rejected,
\* otherwise {[owner, repo]} with owner and repo optional.
parseRepoUrl(repoUrl) ==
  IF repoUrl.host \notin IntegrationHosts
    THEN {}
    ELSE {[owner |-> IF "owner" \in DOMAIN repoUrl.query
                       THEN {repoUrl.query.owner} ELSE {},
           repo  |-> IF "repo" \in DOMAIN repoUrl.query
                       THEN {repoUrl.query.repo} ELSE {}]}

\* variant: only undefined is rejected, the empty string passes
NotOwner_undefinedOnly(owner) == owner = {}

\* !owner : undefined and the empty string are falsy
NotOwner(owner) == owner = {} \/ owner = {""}

\* getOctokitOptions: the explicit token wins over the credentials provider
getOctokitOptions(inp) ==
  [auth |-> IF inp.token # {} THEN inp.token ELSE {"provider_credentials"}]

\* variant: the comparison is off by one
onRateLimit_lte(retryAfter, opts) == opts.request.retryCount <= 4

\* throttle.onRateLimit
onRateLimit(retryAfter, opts) == opts.request.retryCount < 4

\* variant: one more retry on the secondary signal
onSecondaryRateLimit_five(retryAfter, opts) == opts.request.retryCount < 5

\* throttle.onSecondaryRateLimit
onSecondaryRateLimit(retryAfter, opts) == opts.request.retryCount < 4

fallbackSecondaryRateRetryAfter == 5

\* seconds handed to the callback on a secondary rate limit
SecondaryRetryAfter(hdr) ==
  IF hdr = {} THEN fallbackSecondaryRateRetryAfter ELSE CHOOSE n \in hdr : TRUE

\* seconds handed to the callback on a primary rate limit
PrimaryRetryAfter(hdr) == IF hdr = {} THEN 0 ELSE CHOOSE n \in hdr : TRUE

\* variant: workflow_id and ref exchanged, inputs dropped
DispatchPayload_swapped(p, inp) ==
  [owner |-> p.owner, repo |-> p.repo, workflow_id |-> inp.branchOrTagName,
   ref |-> inp.workflowId, inputs |-> {}]

\* the argument of client.rest.actions.createWorkflowDispatch
DispatchPayload(p, inp) ==
  [owner |-> p.owner, repo |-> p.repo, workflow_id |-> inp.workflowId,
   ref |-> inp.branchOrTagName, inputs |-> inp.workflowInputs]

\* the two ctx.logger.info entries
DispatchingLog(inp) ==
  [kind |-> "info",
   body |-> [text |-> "Dispatching workflow", workflowId |-> inp.workflowId,
             repoUrl |-> inp.repoUrl, ref |-> inp.branchOrTagName]]

SuccessLog(inp) ==
  [kind |-> "info",
   body |-> [text |-> "dispatched successfully", workflowId |-> inp.workflowId]]

DispatchEntry(payload) == [kind |-> "dispatch", body |-> payload]

\* variant: one request state shared by all invocations
RequestRetryCount_shared(i) ==
  CHOOSE m \in {retryCount[j] : j \in DOMAIN retryCount} :
    \A j \in DOMAIN retryCount : retryCount[j] <= m

\* the retry count the throttle callback of invocation i is shown: each
\* invocation builds its own client, so it is that invocation's own count
RequestRetryCount(i) == retryCount[i]

----------------------------------------------------------------------------
\* Observations on the trace

RECURSIVE CountKind(_, _)
CountKind(s, k) ==
  IF s = <<>> THEN 0
  ELSE (IF Head(s).kind = k THEN 1 ELSE 0) + CountKind(Tail(s), k)

Attempts(i) == CountKind(trace[i], "dispatch")

IsSuccessLog(e) == e.kind = "info" /\ e.body.text = "dispatched successfully"
IsDispatchingLog(e) == e.kind = "info" /\ e.body.text = "Dispatching workflow"

SuccessLogs(i) ==
  Cardinality({k \in 1..Len(trace[i]) : IsSuccessLog(trace[i][k])})

----------------------------------------------------------------------------
InitOf(ids, inputs) ==
  /\ input \in [ids -> inputs]
  /\ pc = [i \in ids |-> "start"]
  /\ parsed = [i \in ids |-> {}]
  /\ client = [i \in ids |-> {}]
  /\ request = [i \in ids |-> {}]
  /\ retryCount = [i \in ids |-> 0]
  /\ trace = [i \in ids |-> <<>>]
  /\ error = [i \in ids |-> "none"]
  /\ responsesSeen = [i \in ids |-> 0]
  /\ rateLimitSeen = [i \in ids |-> 0]
  /\ lastResponse = [i \in ids |-> "none"]

\* one invocation, any input
Init == InitOf({1}, Inputs)

\* several invocations running concurrently
InitConc == InitOf(1..NumInvocations, ConcInputs)

\* handler, up to its first await: log, parse, owner check
Start(i) ==
  /\ pc[i] = "start"
  /\ LET p == parseRepoUrl(input[i].repoUrl)
         failure == IF p = {} THEN "InvalidRepoUrl"
                    ELSE IF NotOwner((CHOOSE x \in p : TRUE).owner) THEN "InputError"
                    ELSE "none"
     IN /\ trace' = [trace EXCEPT ![i] = Append(@, DispatchingLog(input[i]))]
        /\ parsed' = [parsed EXCEPT ![i] = p]
        /\ error' = [error EXCEPT ![i] = failure]
        /\ pc' = [pc EXCEPT ![i] = IF failure = "none" THEN "awaitOptions" ELSE "failed"]
  /\ UNCHANGED <<input, client, request, retryCount, responsesSeen,
                 rateLimitSeen, lastResponse>>

\* variant: the call is not awaited, success is logged as soon as it is sent
CreateWorkflowDispatch_noAwait(i) ==
  /\ pc[i] = "awaitOptions"
  /\ LET payload == DispatchPayload(CHOOSE x \in parsed[i] : TRUE, input[i])
     IN /\ client' = [client EXCEPT ![i] = {getOctokitOptions(input[i])}]
        /\ request' = [request EXCEPT ![i] = {payload}]
        /\ retryCount' = [retryCount EXCEPT ![i] = 0]
        /\ trace' = [trace EXCEPT ![i] = Append(Append(@, DispatchEntry(payload)),
                                                 SuccessLog(input[i]))]
        /\ pc' = [pc EXCEPT ![i] = "inFlight"]
  /\ UNCHANGED <<input, parsed, error, responsesSeen, rateLimitSeen, lastResponse>>

\* getOctokitOptions resolved: build the throttled client and send the request
CreateWorkflowDispatch(i) ==
  /\ pc[i] = "awaitOptions"
  /\ LET payload == DispatchPayload(CHOOSE x \in parsed[i] : TRUE, input[i])
     IN /\ client' = [client EXCEPT ![i] = {getOctokitOptions(input[i])}]
        /\ request' = [request EXCEPT ![i] = {payload}]
        /\ retryCount' = [retryCount EXCEPT ![i] = 0]
        /\ trace' = [trace EXCEPT ![i] = Append(@, DispatchEntry(payload))]
        /\ pc' = [pc EXCEPT ![i] = "inFlight"]
  /\ UNCHANGED <<input, parsed, error, responsesSeen, rateLimitSeen, lastResponse>>

\* variant: the handler returns without the final log entry
DispatchSucceeds_silent(i) ==
  /\ pc[i] = "inFlight"
  /\ responsesSeen' = [responsesSeen EXCEPT ![i] = @ + 1]
  /\ lastResponse' = [lastResponse EXCEPT ![i] = "ok"]
  /\ pc' = [pc EXCEPT ![i] = "done"]
  /\ UNCHANGED <<input, parsed, client, request, retryCount, error, rateLimitSeen, trace>>

\* the attempt succeeded: the await resolves and the handler logs success
DispatchSucceeds(i) ==
  /\ pc[i] = "inFlight"
  /\ responsesSeen' = [responsesSeen EXCEPT ![i] = @ + 1]
  /\ lastResponse' = [lastResponse EXCEPT ![i] = "ok"]
  /\ trace' = [trace EXCEPT ![i] = Append(@, SuccessLog(input[i]))]
  /\ pc' = [pc EXCEPT ![i] = "done"]
  /\ UNCHANGED <<input, parsed, client, request, retryCount, error, rateLimitSeen>>

\* the attempt met a rate limit: the throttle callback decides on a retry
DispatchRateLimited(i) ==
  /\ pc[i] = "inFlight"
  /\ \E sig \in RateLimitSignals, hdr \in RetryAfterHeaders :
       LET opts == [request |-> [retryCount |-> RequestRetryCount(i)]]
           wantRetry == IF sig = "secondary_rate_limit"
                          THEN onSecondaryRateLimit(SecondaryRetryAfter(hdr), opts)
                          ELSE onRateLimit(PrimaryRetryAfter(hdr), opts)
       IN /\ responsesSeen' = [responsesSeen EXCEPT ![i] = @ + 1]
          /\ rateLimitSeen' = [rateLimitSeen EXCEPT ![i] = @ + 1]
          /\ lastResponse' = [lastResponse EXCEPT ![i] = sig]
          /\ retryCount' = [retryCount EXCEPT ![i] = IF wantRetry THEN @ + 1 ELSE @]
          /\ pc' = [pc EXCEPT ![i] = IF wantRetry THEN "backoff" ELSE "failed"]
          /\ error' = [error EXCEPT ![i] = IF wantRetry THEN @ ELSE sig]
  /\ UNCHANGED <<input, parsed, client, request, trace>>

\* variant: the retry is never scheduled
RetryDispatch_never(i) == pc[i] = "backoff" /\ FALSE /\ UNCHANGED vars

\* the wait is over: the same request is sent again
RetryDispatch(i) ==
  /\ pc[i] = "backoff"
  /\ trace' = [trace EXCEPT ![i] = Append(@, DispatchEntry(CHOOSE x \in request[i] : TRUE))]
  /\ pc' = [pc EXCEPT ![i] = "inFlight"]
  /\ UNCHANGED <<input, parsed, client, request, retryCount, error,
                 responsesSeen, rateLimitSeen, lastResponse>>

\* variant: other errors are retried like rate limits
DispatchFails_retries(i) ==
  /\ pc[i] = "inFlight"
  /\ \E err \in OtherErrors : lastResponse' = [lastResponse EXCEPT ![i] = err]
  /\ responsesSeen' = [responsesSeen EXCEPT ![i] = @ + 1]
  /\ pc' = [pc EXCEPT ![i] = "backoff"]
  /\ UNCHANGED <<input, parsed, client, request, retryCount, trace, rateLimitSeen, error>>

\* the attempt failed with another error: the await rejects with it
DispatchFails(i) ==
  /\ pc[i] = "inFlight"
  /\ \E err \in OtherErrors :
       /\ lastResponse' = [lastResponse EXCEPT ![i] = err]
       /\ error' = [error EXCEPT ![i] = err]
  /\ responsesSeen' = [responsesSeen EXCEPT ![i] = @ + 1]
  /\ pc' = [pc EXCEPT ![i] = "failed"]
  /\ UNCHANGED <<input, parsed, client, request, retryCount, trace, rateLimitSeen>>

Next ==
  \/ \E i \in Invs : Start(i)
  \/ \E i \in Invs : CreateWorkflowDispatch(i)
  \/ \E i \in Invs : DispatchSucceeds(i)
  \/ \E i \in Invs : DispatchRateLimited(i)
  \/ \E i \in Invs : RetryDispatch(i)
  \/ \E i \in Invs : DispatchFails(i)

Spec == Init /\ [][Next]_vars

SpecConc == InitConc /\ [][Next]_vars

\* every pending continuation runs and every attempt receives a response
FairSpec == Init /\ [][Next]_vars /\ WF_vars(Next)

----------------------------------------------------------------------------
\* Properties

DispatchBodies(i) ==
  {trace[i][k].body : k \in {m \in 1..Len(trace[i]) : trace[i][m].kind = "dispatch"}}

OwnerMissing(i) ==
  /\ parsed[i] # {}
  /\ \A p \in parsed[i] : p.owner = {} \/ p.owner = {""}

\* C1: an invocation whose repoUrl parses to an absent or empty owner fails
\* with InputError, builds no client and never makes a dispatch attempt; it
\* stays in that failure.
C1_MissingOwnerFails ==
  \A i \in Invs :
    OwnerMissing(i) =>
      /\ pc[i] = "failed"
      /\ error[i] = "InputError"
      /\ Attempts(i) = 0
      /\ responsesSeen[i] = 0
      /\ client[i] = {}
      /\ request[i] = {}

C1_Witness ==
  \E i \in Invs : /\ OwnerMissing(i)
                  /\ parsed[i] = {[owner |-> {""}, repo |-> {"demo"}]}
                  /\ pc[i] = "failed"
                  /\ error[i] = "InputError"

C5_PayloadFromInput ==
  \A i \in Invs : \A b \in DispatchBodies(i) :
    /\ \A p \in parseRepoUrl(input[i].repoUrl) : b.owner = p.owner /\ b.repo = p.repo
    /\ parseRepoUrl(input[i].repoUrl) # {}
    /\ b.owner = {input[i].repoUrl.query.owner}
    /\ b.workflow_id = input[i].workflowId
    /\ b.ref = input[i].branchOrTagName
    /\ b.inputs = input[i].workflowInputs

C5_Witness ==
  \E i \in Invs : /\ Attempts(i) >= 3
                  /\ input[i].workflowInputs # {}
                  /\ Cardinality(DispatchBodies(i)) = 1

\* C6: the "Dispatching workflow" entry precedes the first dispatch attempt;
\* the "dispatched successfully" entry comes only after an attempt, and only
\* when an attempt has succeeded.
C6_LogOrder ==
  \A i \in Invs : \A k \in 1..Len(trace[i]) :
    /\ trace[i][k].kind = "dispatch" =>
         \E m \in 1..(k - 1) : IsDispatchingLog(trace[i][m])
    /\ IsSuccessLog(trace[i][k]) =>
         /\ lastResponse[i] = "ok"
         /\ \E m \in 1..(k - 1) : trace[i][m].kind = "dispatch"
         /\ \A m \in 1..Len(trace[i]) : trace[i][m].kind = "dispatch" => m < k

C6_Witness ==
  \E i \in Invs : /\ Len(trace[i]) = 4
                  /\ IsDispatchingLog(trace[i][1])
                  /\ trace[i][2].kind = "dispatch"
                  /\ trace[i][3].kind = "dispatch"
                  /\ IsSuccessLog(trace[i][4])

\* C7: an attempt that fails with an error other than a rate-limit signal
\* ends the invocation in failure with that very error; no further attempt
\* is made and no success log entry is emitted.
C7_OtherErrorPropagates ==
  \A i \in Invs :
    lastResponse[i] \in OtherErrors =>
      /\ pc[i] = "failed"
      /\ error[i] = lastResponse[i]
      /\ Attempts(i) = responsesSeen[i]
      /\ SuccessLogs(i) = 0

C7_Witness ==
  \E i \in Invs : /\ lastResponse[i] = "not_found" /\ pc[i] = "failed"
                  /\ rateLimitSeen[i] = 2 /\ Attempts(i) = 3

\* what an invocation's state must be, given only its own input and the
\* responses its own attempts received
OwnOutcome(i) ==
  /\ \A b \in DispatchBodies(i) :
       /\ b.workflow_id = input[i].workflowId
       /\ b.ref = input[i].branchOrTagName
       /\ b.inputs = input[i].workflowInputs
       /\ b.owner = {input[i].repoUrl.query.owner}
       /\ b.repo = {input[i].repoUrl.query.repo}
  /\ Attempts(i) = responsesSeen[i] + (IF pc[i] = "inFlight" THEN 1 ELSE 0)
  /\ retryCount[i] = (IF rateLimitSeen[i] < 4 THEN rateLimitSeen[i] ELSE 4)
  /\ (pc[i] = "done") <=> (lastResponse[i] = "ok")
  /\ (pc[i] = "failed") <=>
        \/ (pc[i] # "start" /\ (parsed[i] = {} \/ OwnerMissing(i)))
        \/ lastResponse[i] \in OtherErrors
        \/ (lastResponse[i] \in RateLimitSignals /\ rateLimitSeen[i] = 5)
  /\ (pc[i] = "backoff") =>
        lastResponse[i] \in RateLimitSignals /\ rateLimitSeen[i] <= 4

Local(i) ==
  <<input[i], pc[i], parsed[i], client[i], request[i], retryCount[i],
    trace[i], error[i], responsesSeen[i], rateLimitSeen[i], lastResponse[i]>>

\* C8: concurrent invocations are independent: a step of one invocation
\* leaves every other invocation's state alone, and each invocation's retry
\* count, attempts, payload and outcome are determined by its own input and
\* the responses to its own attempts.
C8_Independent ==
  /\ [](\A i \in Invs : OwnOutcome(i))
  /\ [][\A i \in Invs : \A j \in Invs :
          (i # j /\ Local(i)' # Local(i)) => Local(j)' = Local(j)]_vars

C8_Witness ==
  \E i \in Invs : \E j \in Invs :
    /\ i # j
    /\ retryCount[i] = 4 /\ pc[i] = "inFlight"
    /\ retryCount[j] = 1 /\ pc[j] = "backoff"
    /\ input[i] # input[j]

\* C9: a rate-limited request is retried at most 3 times, at most 4
\* dispatch attempts per invocation.
C9_RetryThreeTimes ==
  \A i \in Invs : retryCount[i] <= 3 /\ Attempts(i) <= 4

AllFinal == \A i \in Invs : pc[i] \in Final

\* C10: every invocation terminates: it reaches a final outcome, success or
\* failure, stays there, and has made at most 5 dispatch attempts.
C10_Terminates ==
  /\ <>[]AllFinal
  /\ [](\A i \in Invs : Attempts(i) <= 5 /\ responsesSeen[i] <= 5)

C10_Witness ==
  \E i \in Invs : pc[i] = "failed" /\ Attempts(i) = 5 /\ rateLimitSeen[i] = 5
                  /\ lastResponse[i] = "secondary_rate_limit"
                  /\ error[i] = "secondary_rate_limit"
                  /\ input[i].token # {}
====
